---- MODULE Spec2Model ----
(***************************************************************************)
(* Model of the conversational query pipeline of smart-home-monitor:       *)
(*   - ProviderFactory (providers/ProviderFactory, registry version):      *)
(*     the active-provider map and getAllProviderStatuses, the fan-out of  *)
(*     one getStatus call per provider raced against a 10 s timer;         *)
(*   - ProviderRegistry.createProvider, ProviderFactory.reloadProviders,   *)
(*     getDefaultProvider and OllamaProvider.chat;                         *)
(*   - chat controller: processMessage, the two response generators and    *)
(*     convertIntentToQueryParams;                                         *)
(*   - telemetry controller: the read operations over devices/readings,    *)
(*     the aggregation query's answer, reshaping and paging;               *)
(*   - ProviderFactory lookups suspended across reloadProviders, and the   *)
(*     chat controller's provider catalog.                                 *)
(***************************************************************************)
EXTENDS Integers, Sequences, FiniteSets, TLC

VARIABLES
    \* ---- ProviderFactory ----
    config,       \* ProviderFactory.config
    providers,    \* ProviderFactory.providers: the Map's keys in insertion order
    callId,       \* how many getAllProviderStatuses calls were started
    callPc,       \* the current call's promise: idle / awaiting / resolved / rejected
    polled,       \* Array.from(this.providers.values()) taken by the current call
    started,      \* providers whose getStatus the current call has invoked
    race,         \* per provider: the async callback's promise (none/awaiting/fulfilled/rejected)
    winner,       \* per provider: which branch settled Promise.race first
    record,       \* per provider: the ProviderStatus the callback returned
    probeOut,     \* per provider: what its own getStatus produced in this call
    probes,       \* pending getStatus promises, <<call, provider>>
    timers,       \* pending setTimeout handles, <<call, provider>>
    result,       \* the array Promise.all resolved with
    \* ---- chat controller ----
    messages,     \* table chat_messages, in created_at order
    turns,        \* how many chat turns were started
    req,          \* the current request: user, sessionId, message, provider
    session,      \* processMessage's session = sessionId || uuidv4()
    chatPc,       \* the await the current turn is suspended at
    history,      \* what getConversationHistory returned
    sent,         \* the message list of the last provider call
    stages,       \* the pipeline stages the turn has run, in order
    intentOut,    \* the content of the intent-extraction completion
    aiResponse,   \* the generator's return value
    chatThrew,    \* whether a provider chat call threw in this turn
    failedAt,     \* the stage at which something failed in this turn
    httpStatus,   \* the status the endpoint answered with (0: no answer yet)
    httpBody,     \* the response field of the answer
    nextError,    \* whether processMessage called next(error)
    \* ---- telemetry controller ----
    devices,      \* table devices: id -> owner (user_id), name, type
    telemetry,    \* table telemetry_data: the readings
    telResp,      \* the last answer of a telemetry read operation
    \* ---- ProviderRegistry ----
    plugins,      \* ProviderRegistry.plugins: name -> plugin (or NoPlugin)
    createOut,    \* the outcome of the last createProvider call
    \* ---- ProviderFactory: instances and getDefaultProvider ----
    instances,    \* which instance each active name maps to (0: not in the map)
    built,        \* how many provider instances were constructed so far
    reloads,      \* how many reloadProviders calls were made
    previous,     \* the map as it was when the last reloadProviders was called
    defCalls,     \* how many getDefaultProvider calls were started
    defPc,        \* the await getDefaultProvider is suspended at
    defIdx,       \* getHealthyProvider's position in this.providers.values()
    defProbe,     \* per provider: what its last isHealthy of this call reported
    defResult,    \* what getDefaultProvider returned
    \* ---- OllamaProvider.chat ----
    ollamaCalls,  \* how many chat calls were made
    backend,      \* what the POST /api/chat of the last call produced
    chatOut,      \* the outcome of the last call: a response or a thrown Error
    \* ---- convertIntentToQueryParams ----
    intent,       \* the intent handed to convertIntentToQueryParams
    params,       \* the QueryParams it returned (NoParams before the call)
    \* ---- ProviderFactory lookups across a reload; the provider catalog ----
    susp,         \* a lookup call of the factory: its operation, await and result
    catalog       \* the last answer of getAvailableModels

statusVars == <<config, providers, callId, callPc, polled, started, race, winner,
                record, probeOut, probes, timers, result>>

chatVars == <<messages, turns, req, session, chatPc, history, sent, stages, intentOut,
              aiResponse, chatThrew, failedAt, httpStatus, httpBody, nextError>>

telVars == <<devices, telemetry, telResp>>

regVars == <<plugins, createOut>>

facVars == <<instances, built, reloads, previous, defCalls, defPc, defIdx, defProbe, defResult>>

ollamaVars == <<ollamaCalls, backend, chatOut>>

trVars == <<intent, params>>

liveVars == <<susp, catalog>>

unitVars == <<regVars, facVars, ollamaVars, trVars, liveVars>>

vars == <<statusVars, chatVars, telVars, unitVars>>

----------------------------------------------------------------------------
(* Bounds *)

MaxCalls == 2

MaxTurns == 2

MaxReadings == 2

MaxTime == 2
\* reloadProviders calls in one behaviour
MaxReloads == 2
\* getDefaultProvider calls in one behaviour
MaxDefaultCalls == 2
\* OllamaProvider.chat calls in one behaviour
MaxChatCalls == 2
\* the longest intent.metrics array
MaxMetrics == 4

----------------------------------------------------------------------------
(* Chat controller: the state of a turn *)

Users == {"u1", "u2"}
SessionIds == {"s1"}
NoSession == "none"
Questions == {"q1", "q2"}
Replies == {"a1"}
NoProvider == "unspecified"

SYSTEM_PROMPT == "system prompt"

Apology == "Sorry, I encountered an error processing your request. Please try again."

NoRequest == [user |-> "none", sessionId |-> NoSession, message |-> "none", provider |-> NoProvider]

\* uuidv4(): an id no request has supplied, one per turn
Uuids == <<"uuid-1", "uuid-2", "uuid-3", "uuid-4">>

uuidv4(n) == Uuids[n]

ChatIdle ==
    /\ messages = <<>>
    /\ turns = 0
    /\ req = NoRequest
    /\ session = NoSession
    /\ chatPc = "idle"
    /\ history = <<>>
    /\ sent = <<>>
    /\ stages = <<>>
    /\ intentOut = "none"
    /\ aiResponse = "none"
    /\ chatThrew = FALSE
    /\ failedAt = "none"
    /\ httpStatus = 0
    /\ httpBody = "none"
    /\ nextError = FALSE

----------------------------------------------------------------------------
(* Telemetry service: tables and requests *)

DeviceIds == {"d1", "d2"}
Times == 1..MaxTime

\* Text is a sequence of characters; "%" is the LIKE wildcard.
DeviceName == [d1 |-> <<"a", "c">>, d2 |-> <<"a", "b">>]
DeviceType == [d1 |-> <<"a">>, d2 |-> <<"b">>]

DeviceTables ==
    {[d \in DeviceIds |-> [owner |-> o[d], name |-> DeviceName[d], type |-> DeviceType[d]]] :
        o \in [DeviceIds -> Users]}

NoResponse == [op |-> "none", user |-> "none", status |-> 0, rows |-> {}]

TelIdle ==
    /\ devices = CHOOSE t \in DeviceTables : t["d1"].owner = "u1" /\ t["d2"].owner = "u2"
    /\ telemetry = {}
    /\ telResp = NoResponse

----------------------------------------------------------------------------
(* ProviderFactory *)

ProviderNames == <<"openai", "ollama">>

NameSet == {ProviderNames[i] : i \in 1..Len(ProviderNames)}

NoError == "none"
NoRecord == [name |-> "none", status |-> "none", models |-> 0, error |-> NoError]

\* The credential of a provider config: openai's apiKey, ollama's baseUrl.
Credentials == [openai |-> {"", "sk-key"}, ollama |-> {"not a url", "http://localhost:11434"}]

ProviderConfigs ==
    [NameSet -> [present : BOOLEAN, enabled : BOOLEAN, credential : {"", "sk-key", "not a url", "http://localhost:11434"}]]

Configs ==
    {c \in ProviderConfigs :
        \A n \in NameSet :
            /\ c[n].credential \in Credentials[n]
            /\ (~c[n].present => (~c[n].enabled /\ c[n].credential = CHOOSE x \in Credentials[n] : TRUE))}

\* plugin.isConfigValid of the two built-in plugins
isConfigValid(name, c) ==
    IF name = "openai"
    THEN c.present /\ Len(c.credential) > 0
    ELSE c.present /\ c.credential = "http://localhost:11434"

\* ---- ProviderRegistry ----

\* Names a plugin can be registered or asked for under.
PluginNames == NameSet \cup {"custom"}

NoPlugin == [kind |-> "none", validity |-> "none", factory |-> "none"]

\* The two plugins registerBuiltinProviders registers.
BuiltinPlugin == [kind |-> "builtin", validity |-> "builtin", factory |-> "constructs"]

\* The plugins a caller can register, by what their two functions do:
\* isConfigValid accepts everything, rejects everything, or reads
\* config.credential.length with no guard for a missing config;
\* factory constructs an instance or throws.
CallerPlugins ==
    [kind : {"caller"}, validity : {"always", "never", "unguarded"}, factory : {"constructs", "throws"}]

\* The registry right after its constructor.
registerBuiltinProviders ==
    [n \in PluginNames |-> IF n \in NameSet THEN BuiltinPlugin ELSE NoPlugin]

\* plugin.isConfigValid(config): "true", "false" or "throws"
pluginIsConfigValid(plugin, name, c) ==
    IF plugin.validity = "builtin" THEN (IF isConfigValid(name, c) THEN "true" ELSE "false")
    ELSE IF plugin.validity = "always" THEN "true"
    ELSE IF plugin.validity = "never" THEN "false"
    ELSE IF ~c.present THEN "throws"
    ELSE IF Len(c.credential) > 0 THEN "true" ELSE "false"

\* createProvider that hands out an instance without asking isConfigValid.
createInUnvalidated(reg, name, c) ==
    IF name \notin DOMAIN reg \/ reg[name] = NoPlugin THEN "null"
    ELSE IF reg[name].factory = "throws" THEN "null"
    ELSE "instance"

\* ProviderRegistry.createProvider on the plugin map reg: "instance" for a
\* returned provider, "null", or "thrown" when an exception leaves the method.
createIn(reg, name, c) ==
    IF name \notin DOMAIN reg \/ reg[name] = NoPlugin THEN "null"
    ELSE LET valid == pluginIsConfigValid(reg[name], name, c)
         IN IF valid = "throws" THEN "thrown"
            ELSE IF valid = "false" THEN "null"
            ELSE IF reg[name].factory = "throws" THEN "null"
            ELSE "instance"

\* createProvider as ProviderFactory calls it, on its own registry:
\* TRUE when an instance is returned, FALSE for null
createProvider(name, c) == createIn(registerBuiltinProviders, name, c) = "instance"

RECURSIVE initFrom(_, _)
initFrom(i, cfg) ==
    IF i > Len(ProviderNames) THEN <<>>
    ELSE LET name == ProviderNames[i]
             rest == initFrom(i + 1, cfg)
         IN IF cfg[name].present /\ cfg[name].enabled /\ createProvider(name, cfg[name])
            THEN <<name>> \o rest
            ELSE rest

\* ProviderFactory.initializeProviders on an empty map
initializeProviders(cfg) == initFrom(1, cfg)

SeqSet(s) == {s[i] : i \in 1..Len(s)}

\* What a provider's getStatus can resolve with.
StatusValues(p) ==
    {[name |-> p, status |-> "healthy", models |-> m, error |-> NoError] : m \in 0..1}
    \cup {[name |-> p, status |-> "unhealthy", models |-> m, error |-> "service unreachable"] : m \in 0..1}

ErrorRecordUnknown(p, msg) ==
    [name |-> p, status |-> "unknown", models |-> 0, error |-> "Unknown error"]

\* The record of the catch block, for the message of the caught error.
ErrorRecord(p, msg) ==
    [name |-> p, status |-> "unhealthy", models |-> 0, error |-> msg]

\* The message the timer rejects with.
TimeoutMessage == "Status check timeout"

ProbeErrorMessage == "getStatus failed"

\* The providers whose callback .map() runs, each up to its await, before the
\* call awaits anything: all of them.
FanOutFirstOnly(ps) == IF Len(ps) = 0 THEN {} ELSE {ps[1]}

FanOut(ps) == SeqSet(ps)

\* The catch block of the callback: the callback's promise and its record.
OnRaceErrorRethrow(p, msg) == [state |-> "rejected", rec |-> NoRecord]

OnRaceError(p, msg) == [state |-> "fulfilled", rec |-> ErrorRecord(p, msg)]

\* clearTimeout after the race was won by getStatus.
Cleared(ts, c, p) == ts \ {<<c, p>>}

\* Promise.all over the callbacks' promises.
PromiseAll(ps, rc) ==
    IF \E p \in SeqSet(ps) : rc[p] = "rejected" THEN "rejected"
    ELSE IF \A p \in SeqSet(ps) : rc[p] = "fulfilled" THEN "resolved"
    ELSE "awaiting"

ResultOf(ps, rc, rec) ==
    IF PromiseAll(ps, rc) = "resolved" THEN [i \in 1..Len(ps) |-> rec[ps[i]]] ELSE <<>>

\* The configurations with both providers configured with usable credentials,
\* each enabled or not: one per possible active-provider map.
UsableConfigs ==
    {c \in Configs : \A n \in NameSet : c[n].present /\ isConfigValid(n, c[n])}

\* The position of name in the key sequence ps (0 when absent).
IndexOf(ps, name) ==
    IF name \in SeqSet(ps) THEN CHOOSE i \in 1..Len(ps) : ps[i] = name ELSE 0

\* this.providers.clear() left out: the old entries stay in the map.
providersClearKeep(m) == <<>> \o m

\* this.providers.clear()
providersClear(m) == <<>>

\* Map.set of every key of fresh, in order, on the map with keys m: a key
\* already present keeps its position, a new one goes last.
MapSetAll(m, fresh) ==
    m \o SelectSeq(fresh, LAMBDA k : k \notin SeqSet(m))

NoMap == [keys |-> <<>>, inst |-> [n \in NameSet |-> 0]]

RegIdle ==
    /\ plugins = registerBuiltinProviders
    /\ createOut = [name |-> "none", config |-> "none", result |-> "none"]

\* The factory right after its constructor: one instance per active name.
FacIdle ==
    /\ instances = [n \in NameSet |-> IndexOf(providers, n)]
    /\ built = Len(providers)
    /\ reloads = 0
    /\ previous = NoMap
    /\ defCalls = 0
    /\ defPc = "idle"
    /\ defIdx = 0
    /\ defProbe = [n \in NameSet |-> "none"]
    /\ defResult = "none"

NoBackend == [kind |-> "none", status |-> 0, content |-> "none", evalCount |-> 0, text |-> "none"]
NoChatOut == [kind |-> "none", model |-> "none", message |-> "none", tokens |-> 0]

OllamaIdle ==
    /\ ollamaCalls = 0
    /\ backend = NoBackend
    /\ chatOut = NoChatOut

Absent == "absent"
NoIntent ==
    [device |-> Absent, timeRange |-> [set |-> FALSE, start |-> -1, end |-> -1],
     aggregation |-> Absent, metrics |-> [kind |-> "absent", list |-> <<>>],
     functions |-> [set |-> FALSE, list |-> <<>>]]
NoParams ==
    [called |-> FALSE, deviceType |-> Absent, deviceName |-> Absent, startDate |-> -1,
     endDate |-> -1, ranged |-> FALSE, aggregation |-> Absent,
     metrics |-> [set |-> FALSE, list |-> <<>>], functions |-> <<>>]

TrIdle ==
    /\ intent = NoIntent
    /\ params = NoParams

NoCall ==
    [op |-> "none", pc |-> "idle", calls |-> 0, next |-> 0, held |-> 0,
     reloaded |-> FALSE, out |-> {}]
NoCatalog == [status |-> 0, providers |-> <<>>]

LiveIdle ==
    /\ susp = NoCall
    /\ catalog = NoCatalog

UnitIdle == RegIdle /\ FacIdle /\ OllamaIdle /\ TrIdle /\ LiveIdle

InitStatusWith(cfgs) ==
    /\ config \in cfgs
    /\ providers = initializeProviders(config)
    /\ callId = 0
    /\ callPc = "idle"
    /\ polled = <<>>
    /\ started = {}
    /\ race = [n \in NameSet |-> "none"]
    /\ winner = [n \in NameSet |-> "none"]
    /\ record = [n \in NameSet |-> NoRecord]
    /\ probeOut = [n \in NameSet |-> NoRecord]
    /\ probes = {}
    /\ timers = {}
    /\ result = <<>>

InitStatus == InitStatusWith(Configs)

InitStatusOnly == InitStatus /\ ChatIdle /\ TelIdle /\ UnitIdle

\* getAllProviderStatuses, up to the await of Promise.all: every callback runs
\* to its own await of Promise.race, with its timer set and its getStatus called.
GetAllProviderStatuses ==
    /\ callPc \in {"idle", "resolved", "rejected"}
    /\ callId < MaxCalls
    /\ LET c == callId + 1
           go == FanOut(providers)
           rc == [n \in NameSet |-> IF n \in go THEN "awaiting" ELSE "none"]
           rec == [n \in NameSet |-> NoRecord]
       IN /\ callId' = c
          /\ polled' = providers
          /\ started' = go
          /\ timers' = timers \cup {<<c, n>> : n \in go}
          /\ probes' = probes \cup {<<c, n>> : n \in go}
          /\ race' = rc
          /\ winner' = [n \in NameSet |-> "none"]
          /\ record' = rec
          /\ probeOut' = [n \in NameSet |-> NoRecord]
          /\ callPc' = PromiseAll(providers, rc)
          /\ result' = ResultOf(providers, rc, rec)
    /\ UNCHANGED <<config, providers>>
    /\ UNCHANGED <<chatVars, telVars, unitVars>>

\* A provider's getStatus resolves with v.
StatusResolves(c, p, v) ==
    /\ <<c, p>> \in probes
    /\ probes' = probes \ {<<c, p>>}
    /\ IF c = callId /\ race[p] = "awaiting"
       THEN /\ race' = [race EXCEPT ![p] = "fulfilled"]
            /\ winner' = [winner EXCEPT ![p] = "status"]
            /\ record' = [record EXCEPT ![p] = v]
            /\ probeOut' = [probeOut EXCEPT ![p] = v]
            /\ timers' = Cleared(timers, c, p)
            /\ callPc' = PromiseAll(polled, race')
            /\ result' = ResultOf(polled, race', record')
       ELSE /\ probeOut' = IF c = callId THEN [probeOut EXCEPT ![p] = v] ELSE probeOut
            /\ UNCHANGED <<race, winner, record, timers, callPc, result>>
    /\ UNCHANGED <<config, providers, callId, polled, started>>
    /\ UNCHANGED <<chatVars, telVars, unitVars>>

\* A provider's getStatus rejects.
StatusRejects(c, p) ==
    /\ <<c, p>> \in probes
    /\ probes' = probes \ {<<c, p>>}
    /\ IF c = callId /\ race[p] = "awaiting"
       THEN /\ race' = [race EXCEPT ![p] = OnRaceError(p, ProbeErrorMessage).state]
            /\ winner' = [winner EXCEPT ![p] = "statusError"]
            /\ record' = [record EXCEPT ![p] = OnRaceError(p, ProbeErrorMessage).rec]
            /\ callPc' = PromiseAll(polled, race')
            /\ result' = ResultOf(polled, race', record')
       ELSE UNCHANGED <<race, winner, record, callPc, result>>
    /\ UNCHANGED <<config, providers, callId, polled, started, probeOut, timers>>
    /\ UNCHANGED <<chatVars, telVars, unitVars>>

\* The 10 s timer of a callback fires and rejects the timeout promise.
TimerFires(c, p) ==
    /\ <<c, p>> \in timers
    /\ timers' = timers \ {<<c, p>>}
    /\ IF c = callId /\ race[p] = "awaiting"
       THEN /\ race' = [race EXCEPT ![p] = OnRaceError(p, TimeoutMessage).state]
            /\ winner' = [winner EXCEPT ![p] = "timeout"]
            /\ record' = [record EXCEPT ![p] = OnRaceError(p, TimeoutMessage).rec]
            /\ callPc' = PromiseAll(polled, race')
            /\ result' = ResultOf(polled, race', record')
       ELSE UNCHANGED <<race, winner, record, callPc, result>>
    /\ UNCHANGED <<config, providers, callId, polled, started, probeOut, probes>>
    /\ UNCHANGED <<chatVars, telVars, unitVars>>

NextStatus ==
    \/ GetAllProviderStatuses
    \/ \E c \in 1..MaxCalls, p \in NameSet :
          \/ \E v \in StatusValues(p) : StatusResolves(c, p, v)
          \/ StatusRejects(c, p)
          \/ TimerFires(c, p)

SpecStatus == InitStatusOnly /\ [][NextStatus]_vars

\* Node fires every timer that is not cleared.
FairSpecStatus ==
    /\ InitStatusOnly
    /\ [][NextStatus]_vars
    /\ \A c \in 1..MaxCalls, p \in NameSet : WF_vars(TimerFires(c, p))

----------------------------------------------------------------------------
(* Chat controller: processMessage and generateAIResponseWithProvider *)

Row(u, sid, role, content) ==
    [user_id |-> u, session_id |-> sid, role |-> role, content |-> content]

\* getConversationHistory: the rows of the session, oldest first
getConversationHistory(sid) ==
    SelectSeq(messages, LAMBDA m : m.session_id = sid)

\* providerFactory.getProvider(name) is defined
getProvider(name) == name \in SeqSet(providers)

\* requestedProvider || 'openai'
providerName(r) == IF r.provider = NoProvider THEN "openai" ELSE r.provider

\* The list a generator sends: system prompt, history, current user message
chatHistory(h, msg) ==
    <<[role |-> "system", content |-> SYSTEM_PROMPT]>>
    \o [i \in 1..Len(h) |-> [role |-> h[i].role, content |-> h[i].content]]
    \o <<[role |-> "user", content |-> msg]>>

\* processMessage's catch: next(error), answered by errorHandler with 500
HandlerCatch(stage) ==
    /\ chatPc' = "done"
    /\ failedAt' = stage
    /\ nextError' = TRUE
    /\ httpStatus' = 500
    /\ httpBody' = "Internal server error"

\* processMessage up to its first await (saveMessage of the user message)
ProcessMessage(u, sid, q, prov) ==
    /\ chatPc \in {"idle", "done"}
    /\ turns < MaxTurns
    /\ turns' = turns + 1
    /\ req' = [user |-> u, sessionId |-> sid, message |-> q, provider |-> prov]
    /\ session' = IF sid = NoSession THEN uuidv4(turns + 1) ELSE sid
    /\ chatPc' = "saveUser"
    /\ history' = <<>>
    /\ sent' = <<>>
    /\ stages' = <<>>
    /\ intentOut' = "none"
    /\ aiResponse' = "none"
    /\ chatThrew' = FALSE
    /\ failedAt' = "none"
    /\ httpStatus' = 0
    /\ httpBody' = "none"
    /\ nextError' = FALSE
    /\ UNCHANGED messages
    /\ UNCHANGED <<statusVars, telVars, unitVars>>

\* saveMessage(session, 'user', message, userId) settles
SaveUserMessage(ok) ==
    /\ chatPc = "saveUser"
    /\ IF ok
       THEN /\ messages' = Append(messages, Row(req.user, session, "user", req.message))
            /\ chatPc' = "history"
            /\ UNCHANGED <<failedAt, nextError, httpStatus, httpBody>>
       ELSE /\ HandlerCatch("saveUser")
            /\ UNCHANGED messages
    /\ UNCHANGED <<turns, req, session, history, sent, stages, intentOut, aiResponse, chatThrew>>
    /\ UNCHANGED <<statusVars, telVars, unitVars>>

\* getConversationHistory settles; on success generateAIResponseWithProvider
\* runs to its first await (getAvailableModels) or into its catch when the
\* provider is not active.
LoadHistory(ok) ==
    /\ chatPc = "history"
    /\ IF ok
       THEN /\ history' = getConversationHistory(session)
            /\ IF getProvider(providerName(req))
               THEN /\ chatPc' = "models"
                    /\ UNCHANGED <<aiResponse, failedAt>>
               ELSE /\ chatPc' = "saveReply"
                    /\ aiResponse' = Apology
                    /\ failedAt' = "provider"
            /\ UNCHANGED <<nextError, httpStatus, httpBody>>
       ELSE /\ HandlerCatch("history")
            /\ UNCHANGED <<history, aiResponse>>
    /\ UNCHANGED <<messages, turns, req, session, sent, stages, intentOut, chatThrew>>
    /\ UNCHANGED <<statusVars, telVars, unitVars>>

\* provider.getAvailableModels() settles; on success the chat call is issued
GetAvailableModels(ok) ==
    /\ chatPc = "models"
    /\ IF ok
       THEN /\ sent' = chatHistory(history, req.message)
            /\ stages' = Append(stages, "PlainChat")
            /\ chatPc' = "chat"
            /\ UNCHANGED <<aiResponse, failedAt>>
       ELSE /\ chatPc' = "saveReply"
            /\ aiResponse' = Apology
            /\ failedAt' = "models"
            /\ UNCHANGED <<sent, stages>>
    /\ UNCHANGED <<messages, turns, req, session, history, intentOut, chatThrew,
                   httpStatus, httpBody, nextError>>
    /\ UNCHANGED <<statusVars, telVars, unitVars>>

\* provider.chat settles: its content, or the catch block's apology
ProviderChat(ok, content) ==
    /\ chatPc = "chat"
    /\ chatPc' = "saveReply"
    /\ IF ok
       THEN /\ aiResponse' = content
            /\ UNCHANGED <<chatThrew, failedAt>>
       ELSE /\ aiResponse' = Apology
            /\ chatThrew' = TRUE
            /\ failedAt' = "chat"
    /\ UNCHANGED <<messages, turns, req, session, history, sent, stages, intentOut,
                   httpStatus, httpBody, nextError>>
    /\ UNCHANGED <<statusVars, telVars, unitVars>>

\* saveMessage(session, 'assistant', aiResponse, userId) settles; on success
\* the endpoint answers 200 with the response
SaveReply(ok) ==
    /\ chatPc = "saveReply"
    /\ IF ok
       THEN /\ messages' = Append(messages, Row(req.user, session, "assistant", aiResponse))
            /\ chatPc' = "done"
            /\ httpStatus' = 200
            /\ httpBody' = aiResponse
            /\ UNCHANGED <<failedAt, nextError>>
       ELSE /\ HandlerCatch("saveReply")
            /\ UNCHANGED messages
    /\ UNCHANGED <<turns, req, session, history, sent, stages, intentOut, aiResponse, chatThrew>>
    /\ UNCHANGED <<statusVars, telVars, unitVars>>

InitChat == InitStatusWith(UsableConfigs) /\ ChatIdle /\ TelIdle /\ UnitIdle

NextChat ==
    \/ \E u \in Users, sid \in SessionIds \cup {NoSession}, q \in Questions,
          prov \in {NoProvider, "ollama"} : ProcessMessage(u, sid, q, prov)
    \/ \E ok \in BOOLEAN :
          \/ SaveUserMessage(ok)
          \/ LoadHistory(ok)
          \/ GetAvailableModels(ok)
          \/ \E a \in Replies : ProviderChat(ok, a)
          \/ SaveReply(ok)

SpecChat == InitChat /\ [][NextChat]_vars

----------------------------------------------------------------------------
(* Chat controller: generateAIResponse, the intent pipeline *)

\* What the intent-extraction completion can answer: a JSON object with
\* needsTelemetry true or false, a JSON object without the field, text that is
\* not JSON, and no content at all.
IntentOutputs == {"needsTrue", "needsFalse", "noField", "notJson", "empty"}

\* JSON.parse(content || '{"needsTelemetry": false}'): "throws" when the
\* content is not JSON, else the truthiness of analysis.needsTelemetry
parseIntent(out) ==
    IF out = "notJson" THEN "throws"
    ELSE IF out = "needsTrue" THEN "telemetry"
    ELSE "plain"

Histories ==
    {<<>>} \cup {<<Row(u, "s1", "user", q), Row(u, "s1", "assistant", a)>> :
                    u \in Users, q \in Questions, a \in Replies \cup {Apology}}

\* generateAIResponse up to its first await: the intent completion is issued
InitIntent ==
    /\ InitStatusWith({CHOOSE c \in UsableConfigs : \A n \in NameSet : c[n].enabled})
    /\ TelIdle
    /\ UnitIdle
    /\ messages = <<>>
    /\ turns = 1
    /\ \E u \in Users, q \in Questions :
          req = [user |-> u, sessionId |-> "s1", message |-> q, provider |-> NoProvider]
    /\ session = "s1"
    /\ chatPc = "intent"
    /\ history \in Histories
    /\ sent = chatHistory(history, req.message)
    /\ stages = <<"ExtractIntent">>
    /\ intentOut = "none"
    /\ aiResponse = "none"
    /\ chatThrew = FALSE
    /\ failedAt = "none"
    /\ httpStatus = 0
    /\ httpBody = "none"
    /\ nextError = FALSE

\* The catch block of generateAIResponse
GeneratorCatch(stage) ==
    /\ chatPc' = "returned"
    /\ aiResponse' = Apology
    /\ failedAt' = stage

\* The intent completion settles. Its content is parsed; with needsTelemetry
\* fetchTelemetryData converts the intent (which may throw) and issues the
\* query, else the plain completion is issued.
IntentCompletion(ok, out, convertOk) ==
    /\ chatPc = "intent"
    /\ IF ~ok
       THEN /\ GeneratorCatch("intent")
            /\ chatThrew' = TRUE
            /\ UNCHANGED <<intentOut, stages>>
       ELSE /\ intentOut' = out
            /\ UNCHANGED chatThrew
            /\ IF parseIntent(out) = "throws"
               THEN /\ GeneratorCatch("intentParse")
                    /\ UNCHANGED stages
               ELSE IF parseIntent(out) = "telemetry"
               THEN IF convertOk
                    THEN /\ stages' = stages \o <<"Translate", "Aggregate">>
                         /\ chatPc' = "fetch"
                         /\ UNCHANGED <<aiResponse, failedAt>>
                    ELSE /\ stages' = Append(stages, "Translate")
                         /\ GeneratorCatch("translate")
               ELSE /\ stages' = Append(stages, "PlainChat")
                    /\ chatPc' = "plain"
                    /\ UNCHANGED <<aiResponse, failedAt>>
    /\ UNCHANGED <<messages, turns, req, session, history, sent, httpStatus, httpBody, nextError>>
    /\ UNCHANGED <<statusVars, telVars, unitVars>>

\* The telemetry query answers; on success the synthesis completion is issued
TelemetryResponse(ok) ==
    /\ chatPc = "fetch"
    /\ IF ok
       THEN /\ stages' = Append(stages, "Synthesize")
            /\ chatPc' = "synth"
            /\ UNCHANGED <<aiResponse, failedAt>>
       ELSE /\ GeneratorCatch("fetch")
            /\ UNCHANGED stages
    /\ UNCHANGED <<messages, turns, req, session, history, sent, intentOut, chatThrew,
                   httpStatus, httpBody, nextError>>
    /\ UNCHANGED <<statusVars, telVars, unitVars>>

\* The final completion (synthesis or plain chat) settles
FinalCompletion(ok, content) ==
    /\ chatPc \in {"synth", "plain"}
    /\ IF ok
       THEN /\ chatPc' = "returned"
            /\ aiResponse' = content
            /\ UNCHANGED <<chatThrew, failedAt>>
       ELSE /\ GeneratorCatch(chatPc)
            /\ chatThrew' = TRUE
    /\ UNCHANGED <<messages, turns, req, session, history, sent, stages, intentOut,
                   httpStatus, httpBody, nextError>>
    /\ UNCHANGED <<statusVars, telVars, unitVars>>

NextIntent ==
    \/ \E ok \in BOOLEAN, out \in IntentOutputs, convertOk \in BOOLEAN :
          IntentCompletion(ok, out, convertOk)
    \/ \E ok \in BOOLEAN : TelemetryResponse(ok)
    \/ \E ok \in BOOLEAN, a \in Replies : FinalCompletion(ok, a)

SpecIntent == InitIntent /\ [][NextIntent]_vars

----------------------------------------------------------------------------
(* Properties of the chat turn *)

\* C5: a turn in which the provider's chat call threw is answered with 200
\* and the fixed apology, never with a 5xx.
C5_ProviderErrorIs200 ==
    (chatPc = "done" /\ chatThrew) =>
        /\ httpStatus = 200
        /\ httpBody = "Sorry, I encountered an error processing your request. Please try again."

\* C6: whatever stage of a turn fails, the turn is answered with the apology
\* and processMessage never calls next(error).
C6_NoHardFailure ==
    /\ ~nextError
    /\ (chatPc = "done" /\ failedAt # "none") =>
         /\ httpStatus = 200
         /\ httpBody = "Sorry, I encountered an error processing your request. Please try again."

\* C7: an intent completion that is not JSON, or JSON without needsTelemetry,
\* is handled as needsTelemetry false: no telemetry fetch, the plain chat
\* completion is issued, and the parse itself is never the failing stage.
C7_MalformedIntentIsPlainChat ==
    (chatPc = "returned" /\ intentOut \in {"notJson", "noField"}) =>
        /\ "Aggregate" \notin SeqSet(stages)
        /\ "PlainChat" \in SeqSet(stages)
        /\ failedAt # "intentParse"

IsPrefix(a, b) == Len(a) <= Len(b) /\ \A i \in 1..Len(a) : a[i] = b[i]

\* C8: the stages of a turn of processMessage are ExtractIntent, then
\* Translate and Aggregate only with needsTelemetry, then one final
\* completion: the stages run so far are always a prefix of one of the two
\* complete pipelines.
C8_PipelineOrder ==
    turns > 0 =>
        \/ IsPrefix(stages, <<"ExtractIntent", "PlainChat">>)
        \/ IsPrefix(stages, <<"ExtractIntent", "Translate", "Aggregate", "Synthesize">>)

----------------------------------------------------------------------------
(* Telemetry controller *)

Lower(c) == IF c = "A" THEN "a" ELSE IF c = "B" THEN "b" ELSE c

LowerAll(t) == [i \in 1..Len(t) |-> Lower(t[i])]

\* SQL LIKE: "%" matches any run of characters
RECURSIVE Like(_, _)
Like(pat, t) ==
    IF pat = <<>> THEN t = <<>>
    ELSE IF Head(pat) = "%"
         THEN Like(Tail(pat), t) \/ (t # <<>> /\ Like(pat, Tail(t)))
         ELSE t # <<>> /\ Head(pat) = Head(t) /\ Like(Tail(pat), Tail(t))

\* column ILIKE `%${text}%`
ILikeContains(column, text) ==
    Like(<<"%">> \o LowerAll(text) \o <<"%">>, LowerAll(column))

\* The time bucket unit of an aggregation, in time steps
UnitOf(aggregation) ==
    IF aggregation = "daily" THEN 2
    ELSE IF aggregation = "weekly" THEN 4
    ELSE IF aggregation = "monthly" THEN 8
    ELSE 1

\* date_trunc(unit, timestamp)
DateTrunc(unit, ts) == ts - (ts % unit)

Value(r, metric) ==
    IF metric = "power_consumption" THEN r.power_consumption
    ELSE IF metric = "voltage" THEN r.voltage
    ELSE r.current

RECURSIVE SumOf(_, _)
SumOf(rs, metric) ==
    IF rs = {} THEN 0
    ELSE LET r == CHOOSE x \in rs : TRUE
         IN Value(r, metric) + SumOf(rs \ {r}, metric)

\* A column value that is NULL (the metric columns are nullable doubles).
Null == -1

\* The aggregate of a group with no non-NULL value of the metric: NULL.
NullAggregate == <<0, 0>>

\* fn(metric) over the readings of one group, NULLs left out; the value is a
\* pair <<numerator, denominator>>: avg is <<sum, count>>, the others <<v, 1>>
Aggregate(fn, metric, rs) ==
    LET nn == {r \in rs : Value(r, metric) # Null}
    IN IF nn = {} THEN NullAggregate
       ELSE IF fn = "sum" THEN <<SumOf(nn, metric), 1>>
       ELSE IF fn = "avg" THEN <<SumOf(nn, metric), Cardinality(nn)>>
       ELSE IF fn = "min" THEN <<CHOOSE v \in {Value(r, metric) : r \in nn} :
                                   \A r \in nn : v <= Value(r, metric), 1>>
       ELSE <<CHOOSE v \in {Value(r, metric) : r \in nn} :
                   \A r \in nn : v >= Value(r, metric), 1>>

\* The devices the query joins to: no ownership condition.
JoinedDevicesAnyOwner(userId) == DeviceIds

\* telemetry_data JOIN devices ... WHERE devices.user_id = userId
JoinedDevices(userId) == {d \in DeviceIds : devices[d].owner = userId}

\* The rows of queryTelemetry's query: one per (time bucket, device)
QueryRows(userId, q) ==
    LET unit == UnitOf(q.aggregation)
        sel == {r \in telemetry :
                  /\ r.device_id \in JoinedDevices(userId)
                  /\ q.startDate <= r.timestamp /\ r.timestamp <= q.endDate
                  /\ (q.deviceName # <<>> => ILikeContains(devices[r.device_id].name, q.deviceName))
                  /\ (q.deviceType # <<>> => ILikeContains(devices[r.device_id].type, q.deviceType))}
        groups == {<<DateTrunc(unit, r.timestamp), r.device_id>> : r \in sel}
    IN {[timeBucket |-> g[1],
         deviceId |-> g[2],
         deviceName |-> devices[g[2]].name,
         deviceType |-> devices[g[2]].type,
         cols |-> [c \in q.metrics \X q.functions |->
                     Aggregate(c[2], c[1], {r \in sel : r.device_id = g[2]
                                              /\ DateTrunc(unit, r.timestamp) = g[1]})]] :
        g \in groups}

\* A column name or object key as its lower-case words and the way they are
\* joined ("snake": power_consumption_avg, "camel": powerConsumptionAvg); a
\* single word reads the same either way.
Str(words, style) ==
    [words |-> words, style |-> IF Len(words) <= 1 THEN "plain" ELSE style]

MetricWords(metric) ==
    IF metric = "power_consumption" THEN <<"power", "consumption">> ELSE <<metric>>

\* The alias `${metric}_${fn}` of an aggregate projection
columnAlias(metric, fn) == Str(MetricWords(metric) \o <<fn>>, "snake")

\* The key under which the database layer hands a column to the controller:
\* result keys are camel-cased (the row is destructured as timeBucket, deviceId).
postProcessResponse(key) == Str(key.words, "camel")

\* key.match(/^(.+?)(Avg|Sum|Min|Max|Count)$/) and fn.toLowerCase()
metricMatch(key) ==
    LET n == Len(key.words)
    IN IF key.style = "camel" /\ n >= 2
          /\ key.words[n] \in {"avg", "sum", "min", "max", "count"}
       THEN [matched |-> TRUE, metric |-> Str(SubSeq(key.words, 1, n - 1), "camel"),
             fn |-> key.words[n]]
       ELSE [matched |-> FALSE, metric |-> Str(<<>>, "plain"), fn |-> "none"]

\* rows.map(...): one result per row, the aggregate columns unpacked into
\* metrics[metric][function]; a null value and a key that does not match are
\* skipped
transform(row) ==
    [device |-> [id |-> row.deviceId, name |-> row.deviceName, type |-> row.deviceType],
     timestamp |-> row.timeBucket,
     metrics |->
        {[metric |-> metricMatch(postProcessResponse(columnAlias(c[1], c[2]))).metric,
          fn |-> metricMatch(postProcessResponse(columnAlias(c[1], c[2]))).fn,
          value |-> row.cols[c]] :
            c \in {x \in DOMAIN row.cols :
                     /\ row.cols[x] # NullAggregate
                     /\ metricMatch(postProcessResponse(columnAlias(x[1], x[2]))).matched}}]

\* ORDER BY time_bucket ASC: every order of the results with ascending
\* timestamps (rows of one bucket come in any order)
Ordered(S) ==
    {o \in [1..Cardinality(S) -> S] :
        /\ \A i, j \in 1..Cardinality(S) : i # j => o[i] # o[j]
        /\ \A i, j \in 1..Cardinality(S) : i < j => o[i].timestamp <= o[j].timestamp}

\* limit and offset as parsed: z.coerce.number().default(100) and .default(0)
Unset == -1
parsedLimit(q) == IF q.limit = Unset THEN 100 ELSE q.limit
parsedOffset(q) == IF q.offset = Unset THEN 0 ELSE q.offset

\* What the request asked for besides its filters and projections (req.query)
requestOf(q) ==
    [startDate |-> q.startDate, endDate |-> q.endDate,
     aggregation |-> q.aggregation, limit |-> q.limit, offset |-> q.offset]

NoQueryRequest ==
    [startDate |-> 0, endDate |-> 0, aggregation |-> "none",
     limit |-> Unset, offset |-> Unset]

\* An answer that treats an empty result as a missing resource.
queryResponseNotFound(u, q, rows, data) ==
    [op |-> "queryTelemetry", user |-> u, status |-> IF rows = {} THEN 404 ELSE 200,
     rows |-> rows, data |-> data,
     timeRange |-> [start |-> q.startDate, end |-> q.endDate],
     aggregation |-> IF q.aggregation = Absent THEN "hourly" ELSE q.aggregation,
     request |-> requestOf(q), cause |-> "none"]

\* res.json({data, timeRange, aggregation}) of a query that ran
queryResponse(u, q, rows, data) ==
    [op |-> "queryTelemetry", user |-> u, status |-> 200,
     rows |-> rows, data |-> data,
     timeRange |-> [start |-> q.startDate, end |-> q.endDate],
     aggregation |-> IF q.aggregation = Absent THEN "hourly" ELSE q.aggregation,
     request |-> requestOf(q), cause |-> "none"]

\* The catch block: whatever was thrown, by querySchema.parse or by the query
queryCatch(u, cause) ==
    [op |-> "queryTelemetry", user |-> u, status |-> 400,
     rows |-> {}, data |-> <<>>,
     timeRange |-> [start |-> 0, end |-> 0],
     aggregation |-> "none",
     request |-> NoQueryRequest, cause |-> cause]

Metrics == {"power_consumption", "voltage", "current"}

Queries ==
    [deviceName : {<<>>, <<"a">>, <<"%">>, <<"B">>},
     deviceType : {<<>>, <<"a">>},
     metrics : {{"power_consumption"}, {"power_consumption", "voltage"}},
     functions : {{"avg"}, {"sum", "max"}},
     startDate : Times,
     endDate : Times,
     aggregation : {"hourly", "daily"},
     limit : {Unset},
     offset : {Unset}]

\* The queries with paging parameters, a device filter that matches nothing,
\* and the aggregation left out.
PagedQueries ==
    [deviceName : {<<>>, <<"z">>},
     deviceType : {<<>>},
     metrics : {{"power_consumption", "voltage"}},
     functions : {{"max"}, {"avg", "sum"}},
     startDate : {1},
     endDate : {0, MaxTime},
     aggregation : {Absent, "daily"},
     limit : {Unset, 1},
     offset : {Unset, 1}]

\* addTelemetry: the device must belong to the user
AddTelemetry(u, d, ts, pw, vo) ==
    /\ telResp = NoResponse
    /\ Cardinality(telemetry) < MaxReadings
    /\ devices[d].owner = u
    /\ telemetry' = telemetry \cup
          {[device_id |-> d, timestamp |-> ts, power_consumption |-> pw,
            voltage |-> vo, current |-> 1]}
    /\ UNCHANGED <<devices, telResp>>
    /\ UNCHANGED <<statusVars, chatVars, unitVars>>

\* queryTelemetry: a request that fails validation, or whose query fails,
\* is answered by the catch block; else 200 with the reshaped rows in the
\* order the database returned them (time_bucket ascending)
QueryTelemetry(u, q, valid, dbOk) ==
    /\ telResp = NoResponse
    /\ IF valid /\ dbOk
       THEN LET rows == QueryRows(u, q)
            IN \E data \in Ordered({transform(row) : row \in rows}) :
                  telResp' = queryResponse(u, q, rows, data)
       ELSE telResp' = queryCatch(u, IF valid THEN "database" ELSE "validation")
    /\ UNCHANGED <<devices, telemetry>>
    /\ UNCHANGED <<statusVars, chatVars, unitVars>>

\* getDeviceTelemetry: the readings of deviceId, at most limit of them
GetDeviceTelemetry(u, d, limit) ==
    /\ telResp = NoResponse
    /\ \E rows \in SUBSET {r \in telemetry : r.device_id = d} :
          /\ Cardinality(rows) =
                IF Cardinality({r \in telemetry : r.device_id = d}) < limit
                THEN Cardinality({r \in telemetry : r.device_id = d}) ELSE limit
          /\ telResp' = [op |-> "getDeviceTelemetry", user |-> u, status |-> 200,
                         rows |-> {[deviceId |-> r.device_id, timeBucket |-> r.timestamp] : r \in rows}]
    /\ UNCHANGED <<devices, telemetry>>
    /\ UNCHANGED <<statusVars, chatVars, unitVars>>

\* daily_device_metrics: one row per (device, day)
DailyDeviceMetrics ==
    {[deviceId |-> r.device_id, timeBucket |-> DateTrunc(UnitOf("daily"), r.timestamp)] :
        r \in telemetry}

\* The body of getUserDevicesTelemetrySummary for the devices of userId,
\* filtered by deviceId when one is given
SummaryRows(userId, deviceId) ==
    LET own == {d \in DeviceIds : devices[d].owner = userId}
        filtered == IF deviceId = "none" THEN own ELSE {d \in own : d = deviceId}
    IN {m \in DailyDeviceMetrics : m.deviceId \in filtered}

GetUserDevicesTelemetrySummary(u, d) ==
    /\ telResp = NoResponse
    /\ telResp' = [op |-> "getUserDevicesTelemetrySummary", user |-> u, status |-> 200,
                   rows |-> SummaryRows(u, d)]
    /\ UNCHANGED <<devices, telemetry>>
    /\ UNCHANGED <<statusVars, chatVars, unitVars>>

\* getDeviceTelemetrySummary: NotFoundError unless the device is the user's
GetDeviceTelemetrySummary(u, d) ==
    /\ telResp = NoResponse
    /\ telResp' =
          IF devices[d].owner = u
          THEN [op |-> "getDeviceTelemetrySummary", user |-> u, status |-> 200,
                rows |-> SummaryRows(u, d)]
          ELSE [op |-> "getDeviceTelemetrySummary", user |-> u, status |-> 404, rows |-> {}]
    /\ UNCHANGED <<devices, telemetry>>
    /\ UNCHANGED <<statusVars, chatVars, unitVars>>

\* The answer is sent; the service takes the next request
SendResponse ==
    /\ telResp # NoResponse
    /\ telResp' = NoResponse
    /\ UNCHANGED <<devices, telemetry>>
    /\ UNCHANGED <<statusVars, chatVars, unitVars>>

InitTelemetry ==
    /\ InitStatusWith({CHOOSE c \in UsableConfigs : \A n \in NameSet : c[n].enabled})
    /\ ChatIdle
    /\ UnitIdle
    /\ devices \in DeviceTables
    /\ telemetry = {}
    /\ telResp = NoResponse

NextTelemetry ==
    \/ \E u \in Users, d \in DeviceIds, ts \in Times, pw \in 1..2 :
          AddTelemetry(u, d, ts, pw, 230)
    \/ \E u \in Users, q \in Queries, valid \in BOOLEAN, dbOk \in BOOLEAN :
          QueryTelemetry(u, q, valid, dbOk)
    \/ \E u \in Users, d \in DeviceIds, limit \in 1..MaxReadings : GetDeviceTelemetry(u, d, limit)
    \/ \E u \in Users, d \in DeviceIds \cup {"none"} : GetUserDevicesTelemetrySummary(u, d)
    \/ \E u \in Users, d \in DeviceIds : GetDeviceTelemetrySummary(u, d)
    \/ SendResponse

SpecTelemetry == InitTelemetry /\ [][NextTelemetry]_vars

\* The aggregation query on its own: readings with a zero power and no
\* voltage next to ordinary ones, queries with paging parameters.
NextQuery ==
    \/ \E u \in Users, d \in DeviceIds, ts \in Times, m \in {<<0, Null>>, <<1, 230>>} :
          AddTelemetry(u, d, ts, m[1], m[2])
    \/ \E u \in Users, q \in PagedQueries, valid \in BOOLEAN, dbOk \in BOOLEAN :
          QueryTelemetry(u, q, valid, dbOk)
    \/ SendResponse

SpecQuery == InitTelemetry /\ [][NextQuery]_vars

----------------------------------------------------------------------------
(* Properties of the telemetry read operations *)

OwnedRows(resp) ==
    \A row \in resp.rows : devices[row.deviceId].owner = resp.user

\* C9: every row an aggregation query returns belongs to a device owned by
\* the authenticated user, whatever filters, range and aggregation it carries.
C9_QueryRowsOwned ==
    telResp.op = "queryTelemetry" => OwnedRows(telResp)

C9_Witness ==
    /\ telResp.op = "queryTelemetry"
    /\ telResp.status = 200
    /\ telResp.rows # {}
    /\ \E r \in telemetry : devices[r.device_id].owner # telResp.user

\* C10: no telemetry read operation returns a reading of a device that the
\* authenticated user does not own.
C10_ReadsOwned ==
    telResp.op \in {"queryTelemetry", "getDeviceTelemetry", "getDeviceTelemetrySummary",
                    "getUserDevicesTelemetrySummary"} => OwnedRows(telResp)

----------------------------------------------------------------------------
(* Properties of getAllProviderStatuses *)

MentionsTimeout(msg) == msg \in {"Status check timeout", "timeout"}

C2_Safety ==
    /\ callPc # "rejected"
    /\ callPc = "resolved" =>
         /\ Len(result) = Len(providers)
         /\ \A i \in 1..Len(providers) :
              /\ result[i].name = providers[i]
              /\ winner[providers[i]] \in {"statusError", "timeout"} =>
                   result[i].status = "unhealthy"

\* C2: a started call always eventually resolves and never rejects, and what
\* it resolves with is one record per active provider in the map's order,
\* a failed or timed-out provider being an unhealthy record.
C2_AlwaysResolves ==
    /\ [](C2_Safety)
    /\ (callPc = "awaiting") ~> (callPc = "resolved")

C2_Witness ==
    /\ callPc = "resolved"
    /\ Len(result) = 2
    /\ winner["openai"] = "statusError"
    /\ winner["ollama"] = "timeout"
    /\ <<callId, "openai">> \notin probes
    /\ <<callId, "ollama">> \in probes

\* C3: once the race of a provider has produced its record, no timer started
\* for that provider by this call is still pending.
C3_TimerCancelled ==
    \A p \in NameSet :
        race[p] \in {"fulfilled", "rejected"} => <<callId, p>> \notin timers

----------------------------------------------------------------------------
(* ProviderRegistry: registerProvider and createProvider *)

\* The config argument of createProvider: any provider config, or none at all.
CreateConfigs ==
    {c \in [present : BOOLEAN, enabled : BOOLEAN,
            credential : {"", "sk-key", "not a url", "http://localhost:11434"}] :
        ~c.present => (~c.enabled /\ c.credential = "")}

\* registerProvider(plugin): sets the entry, overwriting a registered name
RegisterProvider(name, plugin) ==
    /\ plugins' = [plugins EXCEPT ![name] = plugin]
    /\ UNCHANGED createOut
    /\ UNCHANGED <<facVars, ollamaVars, trVars, liveVars>>
    /\ UNCHANGED <<statusVars, chatVars, telVars>>

\* createProvider(name, config), called by any user of the registry
CreateProvider(name, c) ==
    /\ createOut' = [name |-> name, config |-> c, result |-> createIn(plugins, name, c)]
    /\ UNCHANGED plugins
    /\ UNCHANGED <<facVars, ollamaVars, trVars, liveVars>>
    /\ UNCHANGED <<statusVars, chatVars, telVars>>

InitRegistry ==
    /\ InitStatusWith({CHOOSE c \in UsableConfigs : \A n \in NameSet : c[n].enabled})
    /\ ChatIdle /\ TelIdle /\ UnitIdle

NextRegistry ==
    \/ \E name \in PluginNames, plugin \in CallerPlugins : RegisterProvider(name, plugin)
    \/ \E name \in PluginNames \cup {"unknown"}, c \in CreateConfigs : CreateProvider(name, c)

SpecRegistry == InitRegistry /\ [][NextRegistry]_vars

\* C11: createProvider returns a provider instance or null and never throws,
\* for built-in and for caller-registered plugins: an unknown name, a config
\* the plugin's isConfigValid rejects and a factory that throws all give null.
C11_CreateNeverThrows ==
    createOut.result \in {"none", "instance", "null"}

----------------------------------------------------------------------------
(* ProviderFactory: reloadProviders and getDefaultProvider *)

\* reloadProviders(newConfig): clear the map, set the config, initialize again.
\* Every name initializeProviders sets maps to a newly constructed instance.
reloadProviders(newConfig) ==
    /\ reloads < MaxReloads
    /\ LET kept == providersClear(providers)
           fresh == initializeProviders(newConfig)
       IN /\ providers' = MapSetAll(kept, fresh)
          /\ instances' = [n \in NameSet |->
                              IF n \in SeqSet(fresh) THEN built + IndexOf(fresh, n)
                              ELSE IF n \in SeqSet(kept) THEN instances[n]
                              ELSE 0]
          /\ built' = built + Len(fresh)
    /\ config' = newConfig
    /\ previous' = [keys |-> providers, inst |-> instances]
    /\ reloads' = reloads + 1

\* reloadProviders called while no call of the factory is suspended
ReloadProviders(newConfig) ==
    /\ susp.pc \in {"idle", "returned"}
    /\ defPc \in {"idle", "returned"}
    /\ callPc # "awaiting"
    /\ reloadProviders(newConfig)
    /\ UNCHANGED <<callId, callPc, polled, started, race, winner, record, probeOut,
                   probes, timers, result>>
    /\ UNCHANGED <<defCalls, defPc, defIdx, defProbe, defResult>>
    /\ UNCHANGED <<regVars, ollamaVars, trVars, liveVars>>
    /\ UNCHANGED <<chatVars, telVars>>

\* The provider getDefaultProvider asks first.
PreferredOllama == "ollama"

Preferred == "openai"

HealthOf(h) == IF h THEN "healthy" ELSE "unhealthy"

\* getHealthyProvider entered: the loop's first await, or undefined for an empty map
EnterScan ==
    IF Len(providers) = 0
    THEN defPc' = "returned" /\ defResult' = "undefined" /\ defIdx' = 0
    ELSE defPc' = "scan" /\ defResult' = "pending" /\ defIdx' = 1

\* getDefaultProvider up to its first await
GetDefaultProvider ==
    /\ defPc \in {"idle", "returned"}
    /\ defCalls < MaxDefaultCalls
    /\ defCalls' = defCalls + 1
    /\ defProbe' = [n \in NameSet |-> "none"]
    /\ IF getProvider(Preferred)
       THEN defPc' = "preferred" /\ defResult' = "pending" /\ defIdx' = 0
       ELSE EnterScan
    /\ UNCHANGED <<instances, built, reloads, previous>>
    /\ UNCHANGED <<regVars, ollamaVars, trVars, liveVars>>
    /\ UNCHANGED <<statusVars, chatVars, telVars>>

\* The preferred provider's isHealthy() resolves with h.
PreferredIsHealthy(h) ==
    /\ defPc = "preferred"
    /\ defProbe' = [defProbe EXCEPT ![Preferred] = HealthOf(h)]
    /\ IF h
       THEN defPc' = "returned" /\ defResult' = Preferred /\ defIdx' = 0
       ELSE EnterScan
    /\ UNCHANGED <<instances, built, reloads, previous, defCalls>>
    /\ UNCHANGED <<regVars, ollamaVars, trVars, liveVars>>
    /\ UNCHANGED <<statusVars, chatVars, telVars>>

\* getHealthyProvider: the isHealthy() of the provider at the loop's position
\* resolves with h.
ScanIsHealthy(h) ==
    /\ defPc = "scan"
    /\ LET p == providers[defIdx]
       IN /\ defProbe' = [defProbe EXCEPT ![p] = HealthOf(h)]
          /\ IF h
             THEN defPc' = "returned" /\ defResult' = p /\ defIdx' = defIdx
             ELSE IF defIdx = Len(providers)
             THEN defPc' = "returned" /\ defResult' = "undefined" /\ defIdx' = defIdx
             ELSE defPc' = "scan" /\ defResult' = "pending" /\ defIdx' = defIdx + 1
    /\ UNCHANGED <<instances, built, reloads, previous, defCalls>>
    /\ UNCHANGED <<regVars, ollamaVars, trVars, liveVars>>
    /\ UNCHANGED <<statusVars, chatVars, telVars>>

InitFactory == InitStatusWith(Configs) /\ ChatIdle /\ TelIdle /\ UnitIdle

NextFactory ==
    \/ \E newConfig \in Configs : ReloadProviders(newConfig)
    \/ GetDefaultProvider
    \/ \E h \in BOOLEAN : PreferredIsHealthy(h)
    \/ \E h \in BOOLEAN : ScanIsHealthy(h)

SpecFactory == InitFactory /\ [][NextFactory]_vars

\* A provider config that is there, enabled and valid for its provider:
\* openai with a non-empty apiKey, ollama with a baseUrl that parses as a URL.
Usable(name, c) ==
    /\ c.present
    /\ c.enabled
    /\ IF name = "openai" THEN c.credential # "" ELSE c.credential # "not a url"

C13_ReloadReplaces ==
    reloads > 0 =>
        /\ providers = initializeProviders(config)
        /\ \A n \in NameSet : (instances[n] # 0) <=> (n \in SeqSet(providers))
        /\ \A n \in SeqSet(providers) :
              \A k \in NameSet : instances[n] # previous.inst[k]

\* A provider of the old configuration was dropped and another one rebuilt.
C13_Witness ==
    /\ reloads > 0
    /\ \E n \in SeqSet(previous.keys) : n \notin SeqSet(providers)
    /\ \E n \in SeqSet(previous.keys) : n \in SeqSet(providers)

\* What holds of the value a getDefaultProvider call has just returned.
C14_Returned ==
    /\ (defResult = "undefined") <=> (\A n \in SeqSet(providers) : defProbe[n] = "unhealthy")
    /\ defResult # "undefined" =>
          /\ defResult \in SeqSet(providers)
          /\ defProbe[defResult] = "healthy"
          /\ \A i \in 1..Len(providers) :
                i < IndexOf(providers, defResult) => defProbe[providers[i]] = "unhealthy"
    /\ ("openai" \in SeqSet(providers) /\ defProbe["openai"] = "healthy") => defResult = "openai"

\* C14: getDefaultProvider returns openai when it is active and reports
\* healthy, else the first active provider in registration order that reports
\* healthy; undefined exactly when no active provider reports healthy; never a
\* provider whose last probe in the call was unhealthy. Stated of every step
\* of a call that returns.
C14_DefaultProvider ==
    [][(defPc' = "returned" /\ reloads' = reloads) => C14_Returned']_vars

\* openai was unhealthy on both probes and the scan went on to ollama.
C14_Witness ==
    /\ defPc = "returned"
    /\ defResult = "ollama"
    /\ providers = <<"openai", "ollama">>
    /\ defProbe["openai"] = "unhealthy"

----------------------------------------------------------------------------
(* OllamaProvider.chat *)

Models == {"llama2:7b", "unknown-model"}

\* What this.client.post('/api/chat') can produce: a 2xx response whose body has
\* a message with content, an empty content or no message at all, with or
\* without an eval_count; an AxiosError
\* carrying the backend's response (status and payload text); an AxiosError
\* with no response (connection refused, timeout); any other exception.
Backends ==
    {[kind |-> "response", status |-> 200, content |-> c, evalCount |-> n, text |-> "none"] :
        c \in {"Hello, world!", "", "missing"}, n \in {0, 5}}
    \cup {[kind |-> "axiosResponse", status |-> st, content |-> "none", evalCount |-> 0, text |-> t] :
            st \in {400, 404, 429, 500, 503},
            t \in {"Request failed with status code", "model not found, try pulling it first"}}
    \cup {[kind |-> "axiosNoResponse", status |-> 0, content |-> "none", evalCount |-> 0, text |-> t] :
            t \in {"connect ECONNREFUSED 127.0.0.1:11434", "timeout of 60000ms exceeded"}}
    \cup {[kind |-> "other", status |-> 0, content |-> "none", evalCount |-> 0,
           text |-> "Cannot read properties of undefined"]}

\* The error reaching the catch block: the one post rejected with, or the one
\* thrown for a response without content.
CaughtBy(b) ==
    IF b.kind = "response"
    THEN [axios |-> FALSE, status |-> 0, text |-> "No response content received from Ollama"]
    ELSE [axios |-> b.kind \in {"axiosResponse", "axiosNoResponse"}, status |-> b.status,
          text |-> b.text]

\* A catch block that rethrows with the original error's text.
chatCatchRaw(e) == e.text

\* The catch block of chat: the message of the Error it throws.
chatCatch(e) ==
    IF e.axios
    THEN (IF e.status = 404 THEN "Model not available" ELSE "Service temporarily unavailable")
    ELSE "Service temporarily unavailable"

\* chat(messages, options) up to its await of the POST
OllamaChat(model) ==
    /\ chatOut.kind # "pending"
    /\ ollamaCalls < MaxChatCalls
    /\ ollamaCalls' = ollamaCalls + 1
    /\ chatOut' = [kind |-> "pending", model |-> model, message |-> "none", tokens |-> 0]
    /\ UNCHANGED backend
    /\ UNCHANGED <<regVars, facVars, trVars, liveVars>>
    /\ UNCHANGED <<statusVars, chatVars, telVars>>

\* The POST settles with b and chat returns a ChatResponse or throws.
PostSettles(b) ==
    /\ chatOut.kind = "pending"
    /\ backend' = b
    /\ chatOut' =
          IF b.kind = "response" /\ b.content \notin {"", "missing"}
          THEN [kind |-> "response", model |-> chatOut.model, message |-> b.content,
                tokens |-> b.evalCount]
          ELSE [kind |-> "error", model |-> chatOut.model, message |-> chatCatch(CaughtBy(b)),
                tokens |-> 0]
    /\ UNCHANGED ollamaCalls
    /\ UNCHANGED <<regVars, facVars, trVars, liveVars>>
    /\ UNCHANGED <<statusVars, chatVars, telVars>>

NextOllama ==
    \/ \E model \in Models : OllamaChat(model)
    \/ \E b \in Backends : PostSettles(b)

SpecOllama == InitRegistry /\ [][NextOllama]_vars

\* C15: a failed chat throws 'Model not available' when the backend answered
\* HTTP 404 and 'Service temporarily unavailable' for every other failure;
\* the message never carries the backend's status, payload or error text.
C15_SanitizedErrors ==
    chatOut.kind = "error" =>
        /\ chatOut.message \in {"Model not available", "Service temporarily unavailable"}
        /\ (chatOut.message = "Model not available") <=> (backend.status = 404)
        /\ chatOut.message # backend.text
        /\ \A b \in Backends : chatOut.message # b.text

\* The backend answered 404 with a payload and the call threw.
C15_Witness ==
    /\ chatOut.kind = "error"
    /\ backend.kind = "axiosResponse"
    /\ backend.status = 404
    /\ backend.text = "model not found, try pulling it first"

----------------------------------------------------------------------------
(* Chat controller: convertIntentToQueryParams *)

\* METRIC_MAPPING
METRIC_MAPPING ==
    [energyConsumption |-> "power_consumption", powerConsumption |-> "power_consumption",
     energy |-> "power_consumption", power |-> "power_consumption",
     voltage |-> "voltage", current |-> "current"]

\* The array the .filter() keeps metrics of.
CanonicalMetrics == <<"power_consumption", "voltage", "current">>

\* Date strings as hours since an anchor instant; InvalidDate is a string
\* new Date() cannot parse (getTime() is NaN).
InvalidDate == -1

\* Math.ceil(ms / (1000 * 60 * 60 * 24)) of a span given in hours
CeilDays(hours) == -((-hours) \div 24)

\* determineAggregation with Math.floor in place of Math.ceil.
determineAggregationFloor(startDate, endDate) ==
    IF startDate = InvalidDate \/ endDate = InvalidDate THEN "monthly"
    ELSE LET diffInDays == (endDate - startDate) \div 24
         IN IF diffInDays <= 2 THEN "hourly"
            ELSE IF diffInDays <= 14 THEN "daily"
            ELSE IF diffInDays <= 90 THEN "weekly"
            ELSE "monthly"

\* determineAggregation: with a NaN span every comparison is false
determineAggregation(startDate, endDate) ==
    IF startDate = InvalidDate \/ endDate = InvalidDate THEN "monthly"
    ELSE LET diffInDays == CeilDays(endDate - startDate)
         IN IF diffInDays <= 2 THEN "hourly"
            ELSE IF diffInDays <= 14 THEN "daily"
            ELSE IF diffInDays <= 90 THEN "weekly"
            ELSE "monthly"

\* The device strings an intent carries in this model ("" is the empty string).
Devices ==
    {"", "all", "ALL", "All", "ac", "AC", "aircon", "Fridge", "washing machine",
     "air_conditioner", "Air_Conditioner", "lights", "toaster", "Toaster",
     "living room ac", "constructor"}

\* String.prototype.toLowerCase on those strings
toLowerCase(s) ==
    CASE s = "ALL" -> "all"
      [] s = "All" -> "all"
      [] s = "AC" -> "ac"
      [] s = "Fridge" -> "fridge"
      [] s = "Air_Conditioner" -> "air_conditioner"
      [] s = "Toaster" -> "toaster"
      [] OTHER -> s

\* deviceMappings, the abbreviation table
deviceMappings ==
    [ac |-> "air_conditioner", aircon |-> "air_conditioner", fridge |-> "refrigerator",
     light |-> "lights", fan |-> "ceiling_fan", heater |-> "space_heater",
     washer |-> "washing_machine", dryer |-> "clothes_dryer"]
    @@ ("air con" :> "air_conditioner") @@ ("washing machine" :> "washing_machine")

\* Lower-case property names every object literal inherits from Object.prototype.
ObjectPrototypeKeys == {"constructor", "__proto__"}

Inherited == "[inherited from Object.prototype]"
Undefined == "undefined"

\* deviceMappings[deviceLower]: a property read on an object literal
deviceMappingsAt(key) ==
    IF key \in DOMAIN deviceMappings THEN deviceMappings[key]
    ELSE IF key \in ObjectPrototypeKeys THEN Inherited
    ELSE Undefined

fullDeviceTypes ==
    <<"air_conditioner", "refrigerator", "lights", "ceiling_fan", "space_heater",
      "washing_machine", "clothes_dryer">>

\* The device block that also keeps the input as deviceName next to a type.
deviceParamsBoth(device) ==
    IF device \in {Absent, ""} \/ toLowerCase(device) = "all"
    THEN [deviceType |-> Absent, deviceName |-> Absent]
    ELSE LET deviceLower == toLowerCase(device)
         IN IF deviceMappingsAt(deviceLower) # Undefined
            THEN [deviceType |-> deviceMappingsAt(deviceLower), deviceName |-> device]
            ELSE IF deviceLower \in SeqSet(fullDeviceTypes)
            THEN [deviceType |-> deviceLower, deviceName |-> device]
            ELSE [deviceType |-> Absent, deviceName |-> device]

\* The device block of convertIntentToQueryParams
deviceParams(device) ==
    IF device \in {Absent, ""} \/ toLowerCase(device) = "all"
    THEN [deviceType |-> Absent, deviceName |-> Absent]
    ELSE LET deviceLower == toLowerCase(device)
         IN IF deviceMappingsAt(deviceLower) # Undefined
            THEN [deviceType |-> deviceMappingsAt(deviceLower), deviceName |-> Absent]
            ELSE IF deviceLower \in SeqSet(fullDeviceTypes)
            THEN [deviceType |-> deviceLower, deviceName |-> Absent]
            ELSE [deviceType |-> Absent, deviceName |-> device]

\* METRIC_MAPPING[metric] || metric, with the identity in place of the table.
mapMetricIdentity(metric) == metric

\* METRIC_MAPPING[metric] || metric
mapMetric(metric) ==
    IF metric \in DOMAIN METRIC_MAPPING THEN METRIC_MAPPING[metric] ELSE metric

\* .map(...).filter(...) over intent.metrics
metricsParams(list) ==
    SelectSeq([i \in 1..Len(list) |-> mapMetric(list[i])],
              LAMBDA metric : metric \in SeqSet(CanonicalMetrics))

\* A translation that passes on the functions the intent names.
functionsParamsFromIntent(i) ==
    IF i.functions.set THEN i.functions.list ELSE <<"avg", "sum", "min", "max">>

\* params.functions = ['avg', 'sum', 'min', 'max']
functionsParams(i) == <<"avg", "sum", "min", "max">>

\* convertIntentToQueryParams(intent)
convertIntentToQueryParams(i) ==
    LET dev == deviceParams(i.device)
        ranged == i.timeRange.set
    IN [called |-> TRUE,
        deviceType |-> dev.deviceType,
        deviceName |-> dev.deviceName,
        startDate |-> IF ranged THEN i.timeRange.start ELSE InvalidDate,
        endDate |-> IF ranged THEN i.timeRange.end ELSE InvalidDate,
        ranged |-> ranged,
        aggregation |->
            IF ~ranged THEN Absent
            ELSE IF i.aggregation \notin {Absent, ""} THEN i.aggregation
            ELSE determineAggregation(i.timeRange.start, i.timeRange.end),
        metrics |->
            IF i.metrics.kind = "array"
            THEN [set |-> TRUE, list |-> metricsParams(i.metrics.list)]
            ELSE [set |-> FALSE, list |-> <<>>],
        functions |-> functionsParams(i)]

\* The metric strings of the intents of this model.
IntentMetrics ==
    {"energyConsumption", "powerConsumption", "energy", "power", "voltage", "current",
     "power_consumption", "temperature"}

RECURSIVE ListsUpTo(_, _)
ListsUpTo(S, n) ==
    IF n = 0 THEN {<<>>}
    ELSE LET shorter == ListsUpTo(S, n - 1)
         IN shorter \cup {Append(l, x) : l \in {k \in shorter : Len(k) = n - 1}, x \in S}

NoRange == [set |-> FALSE, start |-> InvalidDate, end |-> InvalidDate]

TimeRanges ==
    {NoRange} \cup
    [set : {TRUE}, start : {0, 49, InvalidDate},
     end : {0, 1, 48, 49, 168, 336, 337, 2160, 2161, InvalidDate}]

Aggregations == {Absent, "", "hourly", "monthly", "yearly"}

NoFunctions == [set |-> FALSE, list |-> <<>>]

\* The functions field of an intent: none, one statistic, statistics outside
\* the fixed four.
FunctionLists ==
    {NoFunctions, [set |-> TRUE, list |-> <<"avg">>],
     [set |-> TRUE, list |-> <<"count", "median">>]}

\* The intents the LLM hands over: every metrics array up to MaxMetrics with
\* the other fields fixed, and every combination of the other fields with a
\* handful of metrics values (no field, not an array, empty, one alias, one
\* unknown metric).
Intents ==
    {[device |-> "AC", timeRange |-> [set |-> TRUE, start |-> 0, end |-> 168],
      aggregation |-> Absent, metrics |-> [kind |-> "array", list |-> l],
      functions |-> NoFunctions] :
        l \in ListsUpTo(IntentMetrics, MaxMetrics)}
    \cup
    [device : Devices \cup {Absent}, timeRange : TimeRanges, aggregation : Aggregations,
     metrics : {[kind |-> "absent", list |-> <<>>], [kind |-> "notArray", list |-> <<>>],
                [kind |-> "array", list |-> <<>>], [kind |-> "array", list |-> <<"power">>],
                [kind |-> "array", list |-> <<"temperature">>]},
     functions : FunctionLists]

\* The call convertIntentToQueryParams(intent)
ConvertIntent ==
    /\ ~params.called
    /\ params' = convertIntentToQueryParams(intent)
    /\ UNCHANGED intent
    /\ UNCHANGED <<regVars, facVars, ollamaVars, liveVars>>
    /\ UNCHANGED <<statusVars, chatVars, telVars>>

InitTranslate ==
    /\ InitStatusWith({CHOOSE c \in UsableConfigs : \A n \in NameSet : c[n].enabled})
    /\ ChatIdle /\ TelIdle /\ RegIdle /\ FacIdle /\ OllamaIdle /\ LiveIdle
    /\ intent \in Intents
    /\ params = NoParams

NextTranslate == ConvertIntent

SpecTranslate == InitTranslate /\ [][NextTranslate]_vars

----------------------------------------------------------------------------
(* Properties of convertIntentToQueryParams *)

\* An intent names a device when the field is there and not empty.
NamesDevice == intent.device \notin {Absent, ""}

AbbreviationKeys ==
    {"ac", "aircon", "air con", "fridge", "light", "fan", "heater", "washing machine",
     "washer", "dryer"}

CanonicalTypes ==
    {"air_conditioner", "refrigerator", "lights", "ceiling_fan", "space_heater",
     "washing_machine", "clothes_dryer"}

\* C16: intent.device resolves in strict precedence: 'all' in any case gives
\* no device filter; else a hit in the abbreviation table, in any case, gives
\* deviceType = the mapped type; else a canonical device type gives deviceType;
\* else the input is kept verbatim as deviceName.
C16_DeviceResolution ==
    (params.called /\ NamesDevice) =>
        LET low == toLowerCase(intent.device)
        IN IF low = "all"
           THEN params.deviceType = Absent /\ params.deviceName = Absent
           ELSE IF low \in AbbreviationKeys
           THEN params.deviceType = deviceMappings[low] /\ params.deviceName = Absent
           ELSE IF low \in CanonicalTypes
           THEN params.deviceType = low /\ params.deviceName = Absent
           ELSE params.deviceName = intent.device /\ params.deviceType = Absent

\* C17, as stated: every QueryParams has exactly one of deviceType and
\* deviceName set, also for device 'all' and for an intent without device.
C17_ExactlyOne ==
    params.called => ((params.deviceType # Absent) # (params.deviceName # Absent))

\* C17, amended: deviceType and deviceName are never both set; exactly one of
\* them is set when the intent names a device other than 'all' (in any case),
\* and neither is set otherwise.
C17_AtMostOne ==
    params.called =>
        /\ ~(params.deviceType # Absent /\ params.deviceName # Absent)
        /\ ((params.deviceType # Absent) # (params.deviceName # Absent))
              <=> (NamesDevice /\ toLowerCase(intent.device) # "all")

\* Device 'ALL' gave neither field, and this is after the call.
C17_Witness ==
    /\ params.called
    /\ intent.device = "ALL"
    /\ params.deviceType = Absent
    /\ params.deviceName = Absent

PowerAliases == {"energyConsumption", "powerConsumption", "energy", "power"}

CountIn(list, S) == Cardinality({i \in 1..Len(list) : list[i] \in S})

\* C18: each of energyConsumption, powerConsumption, energy and power becomes
\* exactly power_consumption; every output metric is one of power_consumption,
\* voltage, current; any other intent metric is dropped.
C18_MetricAliases ==
    (params.called /\ params.metrics.set) =>
        LET in == intent.metrics.list
            out == params.metrics.list
        IN /\ \A j \in 1..Len(out) : out[j] \in {"power_consumption", "voltage", "current"}
           /\ CountIn(out, {"power_consumption"}) = CountIn(in, PowerAliases \cup {"power_consumption"})
           /\ CountIn(out, {"voltage"}) = CountIn(in, {"voltage"})
           /\ CountIn(out, {"current"}) = CountIn(in, {"current"})

\* An alias was mapped and an unknown metric dropped.
C18_Witness ==
    /\ params.called
    /\ intent.metrics.list = <<"energy", "temperature", "voltage">>
    /\ params.metrics.list = <<"power_consumption", "voltage">>

\* C19: the metrics list of every QueryParams holds between 1 and 3 canonical
\* metrics: never absent, never empty, never longer than 3.
C19_MetricsOneToThree ==
    params.called =>
        /\ params.metrics.set
        /\ Len(params.metrics.list) >= 1
        /\ Len(params.metrics.list) <= 3

\* C20: with no aggregation in the intent the translated aggregation follows
\* d, the ceiling of the span in days: d <= 2 hourly, 2 < d <= 14 daily,
\* 14 < d <= 90 weekly, d > 90 monthly; an aggregation value in the intent is
\* the translated aggregation whatever the span.
C20_AggregationBySpan ==
    (params.called /\ intent.timeRange.set) =>
        IF intent.aggregation \notin {Absent, ""}
        THEN params.aggregation = intent.aggregation
        ELSE (intent.timeRange.start # InvalidDate /\ intent.timeRange.end # InvalidDate) =>
             LET span == intent.timeRange.end - intent.timeRange.start
                 d == CHOOSE k \in -100..100 : 24 * (k - 1) < span /\ span <= 24 * k
             IN params.aggregation =
                   IF d <= 2 THEN "hourly"
                   ELSE IF d <= 14 THEN "daily"
                   ELSE IF d <= 90 THEN "weekly"
                   ELSE "monthly"

\* A span of two days and one hour, no aggregation in the intent: daily.
C20_Witness ==
    /\ params.called
    /\ intent.aggregation = Absent
    /\ intent.timeRange.set
    /\ intent.timeRange.start = 0
    /\ intent.timeRange.end = 49
    /\ params.aggregation = "daily"


\* C21: the aggregation of the query parameters is one of hourly, daily,
\* weekly, monthly for every intent, whatever aggregation string the intent
\* carries and whether or not it has a timeRange.
C21_AggregationEnum ==
    params.called => params.aggregation \in {"hourly", "daily", "weekly", "monthly"}

\* C22: the functions of the query parameters are exactly avg, sum, min, max
\* in that order, whatever the intent contains.
C22_FunctionsFixed ==
    params.called => params.functions = <<"avg", "sum", "min", "max">>

\* An intent that names its own functions has been translated.
C22_Witness ==
    /\ params.called
    /\ intent.functions.set
    /\ intent.functions.list = <<"count", "median">>

(***************************************************************************)
(* The aggregation query: empty results, failures, reshaping, paging       *)
(***************************************************************************)

\* C23: a valid aggregation query that runs and finds no matching device or
\* no reading in the range is answered with status 200, an empty data array,
\* the requested timeRange and the requested aggregation (hourly when none
\* was given); it is not an error response.
C23_EmptyIs200 ==
    (telResp.op = "queryTelemetry" /\ telResp.cause = "none" /\ telResp.rows = {}) =>
        /\ telResp.status = 200
        /\ telResp.data = <<>>
        /\ telResp.timeRange = [start |-> telResp.request.startDate,
                                end |-> telResp.request.endDate]
        /\ telResp.aggregation =
              (IF telResp.request.aggregation = Absent THEN "hourly"
               ELSE telResp.request.aggregation)

\* An empty answer although readings are stored: none of them matches.
C23_Witness ==
    /\ telemetry # {}
    /\ telResp.op = "queryTelemetry"
    /\ telResp.cause = "none"
    /\ telResp.rows = {}
    /\ telResp.request.aggregation = Absent

\* C24: a request that fails validation is answered with a 4xx, and a valid
\* request whose query fails unexpectedly is answered with a 5xx, never a 4xx.
C24_FailuresDistinguished ==
    /\ (telResp.op = "queryTelemetry" /\ telResp.cause = "validation")
          => telResp.status \in 400..499
    /\ (telResp.op = "queryTelemetry" /\ telResp.cause = "database")
          => telResp.status \in 500..599

\* C25: every row of the result has one reshaped element whose metrics hold,
\* for each requested (metric, function) pair with a non-null aggregate, that
\* aggregate under the metric's name as requested and the lower-case function
\* name, and nothing else.
C25_Reshaped ==
    (telResp.op = "queryTelemetry" /\ telResp.status = 200) =>
        /\ Len(telResp.data) = Cardinality(telResp.rows)
        /\ \A i \in 1..Len(telResp.data) :
              \E row \in telResp.rows :
                 /\ row.deviceId = telResp.data[i].device.id
                 /\ row.timeBucket = telResp.data[i].timestamp
                 /\ telResp.data[i].metrics =
                       {[metric |-> Str(MetricWords(c[1]), "snake"),
                         fn |-> c[2],
                         value |-> row.cols[c]] :
                            c \in {x \in DOMAIN row.cols : row.cols[x] # NullAggregate}}

\* C27: the data array is the time-ordered result without its first offset
\* elements (0 when absent), cut to at most limit elements (100 when absent).
C27_Paged ==
    (telResp.op = "queryTelemetry" /\ telResp.status = 200) =>
        /\ Len(telResp.data) <= parsedLimit(telResp.request)
        /\ \E all \in Ordered({transform(row) : row \in telResp.rows}) :
              telResp.data =
                 SubSeq(all, parsedOffset(telResp.request) + 1,
                        IF Len(all) < parsedOffset(telResp.request)
                                         + parsedLimit(telResp.request)
                        THEN Len(all)
                        ELSE parsedOffset(telResp.request)
                                + parsedLimit(telResp.request))


(***************************************************************************)
(* ProviderFactory lookups while reloadProviders runs; the provider catalog *)
(***************************************************************************)

\* lookup calls in one behaviour
MaxLookups == 2

\* The instances in this.providers
ActiveInstances == {instances[providers[i]] : i \in 1..Len(providers)}

\* The instances the map held when the last reloadProviders was called
PreviousInstances == {previous.inst[previous.keys[i]] : i \in 1..Len(previous.keys)}

\* for (const provider of this.providers.values()): the loop at the map's
\* first entry, or past its end when the map is empty
startScan(s) ==
    IF Len(providers) = 0
    THEN [s EXCEPT !.pc = "returned", !.held = 0, !.next = 0, !.out = {}]
    ELSE [s EXCEPT !.pc = "scan", !.held = instances[providers[1]], !.next = 2]

\* getHealthyProvider, getDefaultProvider or findProviderForModel up to its
\* first await: the instance read from the map is held across the await.
CallLookup(op) ==
    /\ susp.pc \in {"idle", "returned"}
    /\ susp.calls < MaxLookups
    /\ LET s == [NoCall EXCEPT !.op = op, !.calls = susp.calls + 1]
       IN susp' = IF op = "getDefaultProvider" /\ getProvider(Preferred)
                  THEN [s EXCEPT !.pc = "preferred", !.held = instances[Preferred]]
                  ELSE startScan(s)
    /\ UNCHANGED catalog
    /\ UNCHANGED <<regVars, facVars, ollamaVars, trVars>>
    /\ UNCHANGED <<statusVars, chatVars, telVars>>

\* getAllProviderStatuses up to Promise.all: Array.from(this.providers.values())
\* is taken once, the call then waits for every callback.
CallStatuses ==
    /\ susp.pc \in {"idle", "returned"}
    /\ susp.calls < MaxLookups
    /\ susp' = [NoCall EXCEPT !.op = "getAllProviderStatuses", !.calls = susp.calls + 1,
                              !.pc = "statuses", !.out = ActiveInstances]
    /\ UNCHANGED catalog
    /\ UNCHANGED <<regVars, facVars, ollamaVars, trVars>>
    /\ UNCHANGED <<statusVars, chatVars, telVars>>

\* The awaited isHealthy() or hasModel() of the held instance settles: "true"
\* returns the held instance, "false" (and a hasModel that throws, which
\* findProviderForModel catches) moves on to the next entry of the live map.
AwaitSettles(r) ==
    /\ susp.pc \in {"preferred", "scan"}
    /\ r = "throws" => susp.op = "findProviderForModel"
    /\ susp' = IF r = "true"
               THEN [susp EXCEPT !.pc = "returned", !.out = {susp.held}]
               ELSE IF susp.pc = "preferred" THEN startScan(susp)
               ELSE IF susp.next <= Len(providers)
               THEN [susp EXCEPT !.held = instances[providers[susp.next]],
                                 !.next = susp.next + 1]
               ELSE [susp EXCEPT !.pc = "returned", !.held = 0, !.out = {}]
    /\ UNCHANGED catalog
    /\ UNCHANGED <<regVars, facVars, ollamaVars, trVars>>
    /\ UNCHANGED <<statusVars, chatVars, telVars>>

\* Promise.all resolves: one status per instance of the array taken at the call
StatusesSettle ==
    /\ susp.pc = "statuses"
    /\ susp' = [susp EXCEPT !.pc = "returned"]
    /\ UNCHANGED catalog
    /\ UNCHANGED <<regVars, facVars, ollamaVars, trVars>>
    /\ UNCHANGED <<statusVars, chatVars, telVars>>

\* reloadProviders called while the lookup is suspended at an await. The map
\* iterator of a scan is live: the cleared entries are gone for it and it
\* goes on with the entries set by initializeProviders.
ReloadWhileSuspended(newConfig) ==
    /\ susp.pc \in {"preferred", "scan", "statuses"}
    /\ reloadProviders(newConfig)
    /\ susp' = [susp EXCEPT !.reloaded = TRUE,
                            !.next = IF susp.pc = "scan" THEN 1 ELSE susp.next]
    /\ UNCHANGED catalog
    /\ UNCHANGED <<callId, callPc, polled, started, race, winner, record, probeOut,
                   probes, timers, result>>
    /\ UNCHANGED <<defCalls, defPc, defIdx, defProbe, defResult>>
    /\ UNCHANGED <<regVars, ollamaVars, trVars>>
    /\ UNCHANGED <<chatVars, telVars>>

\* The own enumerable properties of a provider instance that JSON.stringify
\* writes out (the axios instance of OllamaProvider is a function and is left
\* out; `private` does not exist at run time).
OwnProperties == [openai |-> {"client", "apiKey"}, ollama |-> {"baseUrl"}]

\* One element of res.json({ providers }): the serialised instance
toJSON(name) ==
    [provider |-> name,
     keys |-> OwnProperties[name],
     secret |-> IF "apiKey" \in OwnProperties[name] THEN config[name].credential
                ELSE "none"]

\* chatController.getAvailableModels: the instances of getAllProviders() are handed to
\* res.json. Whether the OpenAI client object serialises or is a circular
\* structure (JSON.stringify throws, next(error) answers 500) depends on the
\* installed SDK.
ChatController_getAvailableModels(outcome) ==
    /\ outcome = "circular" => getProvider("openai")
    /\ catalog' = IF outcome = "serialised"
                  THEN [status |-> 200,
                        providers |-> [i \in 1..Len(providers) |-> toJSON(providers[i])]]
                  ELSE [status |-> 500, providers |-> <<>>]
    /\ UNCHANGED susp
    /\ UNCHANGED <<regVars, facVars, ollamaVars, trVars>>
    /\ UNCHANGED <<statusVars, chatVars, telVars>>

NextLive ==
    \/ \E newConfig \in Configs : ReloadProviders(newConfig)
    \/ \E newConfig \in Configs : ReloadWhileSuspended(newConfig)
    \/ \E op \in {"getHealthyProvider", "getDefaultProvider", "findProviderForModel"} :
          CallLookup(op)
    \/ CallStatuses
    \/ \E r \in {"true", "false", "throws"} : AwaitSettles(r)
    \/ StatusesSettle
    \/ \E outcome \in {"serialised", "circular"} : ChatController_getAvailableModels(outcome)

SpecLive == InitFactory /\ [][NextLive]_vars

\* The keys of a ProviderStatus record
StatusKeys == {"name", "status", "models", "lastChecked"}

\* C26: getAvailableModels answers with one record per active provider, made
\* of name, status, models, lastChecked and optionally error, and with
\* nothing else about the provider: no configuration, no secret key.
C26_Catalog ==
    [][(catalog' # catalog) =>
          /\ catalog'.status = 200
          /\ Len(catalog'.providers) = Len(providers')
          /\ \A i \in 1..Len(providers') :
                /\ catalog'.providers[i].provider = providers'[i]
                /\ StatusKeys \subseteq catalog'.providers[i].keys
                /\ catalog'.providers[i].keys \subseteq StatusKeys \cup {"error"}
                /\ catalog'.providers[i].secret = "none"]_vars

\* C30: a lookup that was suspended while reloadProviders ran returns (or
\* reports on) only instances that are in the active map when it returns,
\* all of them from one configuration's map.
C30_ReloadSafe ==
    [][(susp.pc # "returned" /\ susp'.pc = "returned" /\ susp'.reloaded) =>
          /\ susp'.out \subseteq ActiveInstances'
          /\ \/ susp'.out \subseteq ActiveInstances'
             \/ susp'.out \subseteq PreviousInstances']_vars


(***************************************************************************)
(* The chat turn: what the provider is sent                                *)
(***************************************************************************)

\* The rows of session sid among ms, oldest first.
SessionRows(ms, sid) == SelectSeq(ms, LAMBDA m : m.session_id = sid)

\* C28: the list sent to the provider is the system instruction, the history
\* of the session as it was before this turn, and the current user message,
\* which therefore occurs once, as the last entry. (While the chat call is
\* pending the last row of chat_messages is the one this turn saved.)
C28_CurrentMessageOnce ==
    (chatPc = "chat") =>
        sent = chatHistory(SessionRows(SubSeq(messages, 1, Len(messages) - 1), session),
                           req.message)

\* C29: the history loaded for a turn, and so what is sent to the provider,
\* holds only rows stored under the user_id of the authenticated user,
\* whatever sessionId the request names.
C29_HistoryOwned ==
    (chatPc \in {"models", "chat", "saveReply"}) =>
        \A i \in 1..Len(history) : history[i].user_id = req.user

====
